---------------------------- MODULE Spec2Model ----------------------------
(***************************************************************************)
(* Variational dropout layers, the conversion engine and the chain-level   *)
(* loss orchestration of variational_dropout.py, with the example networks *)
(* of nets.py, as state machines.                                          *)
(*                                                                         *)
(*   SpecLoss  VariationalDropoutChain.__init__ and calc_loss              *)
(*   SpecNet   a chain as a tree of named links: add_link,                 *)
(*             to_variational_dropout, to_cpu_sparse, to_gpu / to_cpu      *)
(*   SpecLink  one layer: construction, get_vd_link, __call__              *)
(*   SpecRNN   VariationalDropoutTanhRNN and VariationalDropoutLSTM        *)
(*                                                                         *)
(* Real numbers are fixed point: a coefficient or a loss is an integer     *)
(* number of 1/Scale units, added and compared exactly.                    *)
(***************************************************************************)
EXTENDS Integers, Sequences, FiniteSets, TLC

VARIABLES
    \* ---- VariationalDropoutChain loss state (SpecLoss)
    warm_up,      \* self.warm_up, in 1/Scale units
    kl_coef,      \* self.kl_coef, in 1/Scale units
    class_loss,   \* self.class_loss
    kl_loss,      \* self.kl_loss (Unset until a call with add_kl computes it)
    loss,         \* self.loss
    ret,          \* what the last calc_loss call returned
    reported,     \* the keys the last calc_loss call gave to reporter.report
    lastCall,     \* the arguments and ambient flags of the last calc_loss call
    nCalls,       \* calc_loss calls so far
    nKl,          \* of which with add_kl = True
    \* ---- one layer and its conversion (SpecLink)
    link,         \* the layer under construction / call / conversion
    new_link,     \* what get_vd_link(link) returned (NoLink before)
    fwd,          \* the last __call__: its target, input, mode and result
    \* ---- recurrent layers (SpecRNN)
    tanh_h,       \* VariationalDropoutTanhRNN.h
    lstm_h,       \* VariationalDropoutLSTM.h
    lstm_c,       \* VariationalDropoutLSTM.c
    rnnLast,      \* the last recurrent operation: arguments, state at entry,
                  \* pre-activation and returned value
    rnnSteps,     \* recurrent operations so far
    \* ---- a chain as a tree of named links (SpecNet)
    net,          \* path (sequence of names) -> node, for every descendant
    netDevice,    \* where the chain and its links reside: -1 host, else GPU
    netOp,        \* the last operation on the chain
    netErr,       \* the exception that ended it ("" when it returned)
    netLog,       \* the lines it printed
    warned,       \* whether it called warnings.warn
    pre,          \* net at the entry of the last operation
    preDevice,    \* netDevice at the entry of the last operation
    stats         \* what calculate_stats returned, when it was the last
                  \* operation

lossVars == <<warm_up, kl_coef, class_loss, kl_loss, loss, ret, reported,
              lastCall, nCalls, nKl>>

linkVars == <<link, new_link, fwd>>

rnnVars == <<tanh_h, lstm_h, lstm_c, rnnLast, rnnSteps>>

netVars == <<net, netDevice, netOp, netErr, netLog, warned, pre, preDevice,
             stats>>

vars == <<lossVars, linkVars, rnnVars, netVars>>

-----------------------------------------------------------------------------
(* Bounds *)

\* Resolution of the fixed-point numbers: 1.0 is Scale units.
Scale == 10
\* calc_loss calls in one behaviour.
MaxCalls == 5
\* Elements of one weight tensor (out * in * kh * kw).
MaxElems == 2
\* Operations on the recurrent layers in one behaviour.
MaxSteps == 4
\* Links (chains and leaves) below the root of a network.
MaxNodes == 4

One == Scale

Min(a, b) == IF a <= b THEN a ELSE b

-----------------------------------------------------------------------------
(* Floating-point values that may be non-finite *)

Fin(v) == [k |-> "fin", v |-> v]
NaN    == [k |-> "nan", v |-> 0]
Inf    == [k |-> "inf", v |-> 0]
NegInf == [k |-> "-inf", v |-> 0]
Unset  == [k |-> "unset", v |-> 0]    \* the attribute does not exist yet
\* in place of a returned value: reading the attribute raised
AttributeError == [k |-> "AttributeError", v |-> 0]

\* xp.isnan
IsNan(a) == a.k = "nan"

\* a + b on floats
FAdd(a, b) ==
    IF IsNan(a) \/ IsNan(b) THEN NaN
    ELSE IF a.k = "fin" /\ b.k = "fin" THEN Fin(a.v + b.v)
    ELSE IF a.k = "fin" THEN b
    ELSE IF b.k = "fin" \/ a.k = b.k THEN a
    ELSE NaN                                  \* inf + -inf

\* a * c for a float a and a finite coefficient c given in 1/Scale units;
\* the product is in 1/Scale units (inf * 0. is nan)
FScale(a, c) ==
    IF IsNan(a) THEN NaN
    ELSE IF a.k = "fin" THEN Fin(a.v * c)
    ELSE IF c = 0 THEN NaN
    ELSE IF (c > 0) = (a.k = "inf") THEN Inf ELSE NegInf

-----------------------------------------------------------------------------
(* VariationalDropoutChain.__init__ and calc_loss *)

\* warm_up values a chain is built with, in 1/Scale units: negative, zero
\* (no warm-up), 0.1, steps that do not divide 1.0, and a step beyond 1.0
WarmUps == {-1, 0, 1, 3, 4, Scale + 2}

\* softmax_cross_entropy of the forward pass, as the data decide it
ClassLossVals == {Fin(Scale), NaN, Inf}
\* the sum of calculate_kl over the VD links, as the parameters decide it
RegVals == {Fin(2), NaN, Inf}

\* __init__: kl_coef starts at 0 when a warm-up is given, else at 1
InitKlCoefSwapped(w) == IF w # 0 THEN One ELSE 0
InitKlCoef(w) == IF w # 0 THEN 0 ELSE One

\* calc_loss: self.kl_coef = min(self.kl_coef + self.warm_up, 1.)
NextKlCoefNoCap(k, w) == k + w
NextKlCoef(k, w) == Min(k + w, One)

\* lastCall before the first call. class_raw and kl_raw are the class loss
\* and the product a_regf * kl_coef as computed, before the NaN test;
\* kl_entry is self.kl_loss at the entry of the call
NoCalcLoss == [train |-> FALSE, add_kl |-> FALSE, split_loss |-> FALSE,
               calc_stats |-> FALSE, called |-> FALSE,
               class_raw |-> Unset, kl_raw |-> Unset, kl_entry |-> Unset]

InitLoss ==
    /\ warm_up \in WarmUps
    /\ kl_coef = InitKlCoef(warm_up)
    /\ class_loss = Unset
    /\ kl_loss = Unset
    /\ loss = Unset
    /\ ret = <<>>
    /\ reported = {}
    /\ lastCall = NoCalcLoss
    /\ nCalls = 0
    /\ nKl = 0

IdleLoss ==
    /\ warm_up = 0
    /\ kl_coef = 0
    /\ class_loss = Unset
    /\ kl_loss = Unset
    /\ loss = Unset
    /\ ret = <<>>
    /\ reported = {}
    /\ lastCall = NoCalcLoss
    /\ nCalls = 0
    /\ nKl = 0

\* calc_loss(x, t, add_kl, split_loss, calc_stats) under config.train = train,
\* where the forward pass gives the class loss c and the links the KL sum a
calc_loss(train, add_kl, split_loss, calc_stats, c, a) ==
    LET classNan == train /\ IsNan(c)
        cl       == IF classNan THEN Fin(0) ELSE c
        klRaw    == FScale(a, kl_coef)
        klNan    == train /\ IsNan(klRaw)
        kl       == IF add_kl THEN (IF klNan THEN Fin(0) ELSE klRaw)
                    ELSE kl_loss
        ignore   == classNan \/ (add_kl /\ klNan)
        newLoss  == IF add_kl THEN FAdd(cl, kl) ELSE cl
        rep      == (IF classNan THEN {} ELSE {"class"})
                    \cup (IF add_kl /\ ~klNan THEN {"kl"} ELSE {})
                    \cup (IF add_kl THEN {"kl_coef"} ELSE {})
                    \cup (IF ignore THEN {} ELSE {"loss"})
                    \cup {"accuracy"}
                    \cup (IF calc_stats THEN {"mean_p", "sparsity", "W/Wnz"}
                          ELSE {})
    IN  /\ nCalls < MaxCalls
        /\ class_loss' = cl
        /\ kl_loss' = kl
        /\ kl_coef' = IF add_kl THEN NextKlCoef(kl_coef, warm_up) ELSE kl_coef
        /\ loss' = newLoss
        /\ reported' = rep
        /\ ret' = IF split_loss
                  THEN (IF kl.k = "unset" THEN <<AttributeError>>
                        ELSE <<cl, kl>>)
                  ELSE <<newLoss>>
        /\ lastCall' = [train |-> train, add_kl |-> add_kl,
                        split_loss |-> split_loss, calc_stats |-> calc_stats,
                        called |-> TRUE, class_raw |-> c,
                        kl_raw |-> IF add_kl THEN klRaw ELSE Unset,
                        kl_entry |-> kl_loss]
        /\ nCalls' = nCalls + 1
        /\ nKl' = IF add_kl THEN nKl + 1 ELSE nKl
        /\ UNCHANGED <<warm_up, linkVars, rnnVars, netVars>>

CalcLoss ==
    \E train, add_kl, split_loss, calc_stats \in BOOLEAN :
        \E c \in ClassLossVals, a \in RegVals :
            calc_loss(train, add_kl, split_loss, calc_stats, c, a)

NextLoss == CalcLoss


-----------------------------------------------------------------------------
(* Claims on kl_coef *)

\* C1 (as stated): for a chain built with any warm_up, kl_coef never
\* decreases from one calc_loss call to the next and always lies in [0, 1].
C1_AnyWarmUpMonotoneBounded ==
    [][/\ kl_coef' >= kl_coef
       /\ kl_coef \in 0..One
       /\ kl_coef' \in 0..One]_vars

\* C1 (amended): for a chain built with warm_up >= 0, kl_coef never decreases
\* from one calc_loss call to the next and always lies in [0, 1].
C1_KlCoefMonotoneBounded ==
    [][warm_up >= 0 =>
          /\ kl_coef' >= kl_coef
          /\ kl_coef \in 0..One
          /\ kl_coef' \in 0..One]_vars

\* C1 witness: a warm-up chain whose coefficient was stopped at the cap,
\* after calls with and without add_kl.
C1_Witness ==
    /\ warm_up > 0
    /\ nKl >= 2
    /\ nCalls > nKl
    /\ warm_up * nKl > One
    /\ kl_coef = One

-----------------------------------------------------------------------------
(* Claims on the loss components *)

IsFinite(a) == a.k = "fin"

\* C12: in a training-mode calc_loss call a class loss or KL loss that is
\* NaN or infinite is replaced by exactly zero and the step is ignored (no
\* 'loss' is reported), and no returned value is non-finite.
C12_NonFiniteComponentZeroed ==
    (lastCall.called /\ lastCall.train) =>
        /\ ~IsFinite(lastCall.class_raw) =>
              (class_loss = Fin(0) /\ "loss" \notin reported)
        /\ (lastCall.add_kl /\ ~IsFinite(lastCall.kl_raw)) =>
              (kl_loss = Fin(0) /\ "loss" \notin reported)
        /\ ret # <<AttributeError>> =>
              \A k \in DOMAIN ret : IsFinite(ret[k])

\* C14: a calc_loss call with add_kl=False and split_loss=True returns, and
\* the KL component it returns is not a value that an earlier call left in
\* self.kl_loss.
C14_SplitKlNotStale ==
    (lastCall.called /\ lastCall.split_loss /\ ~lastCall.add_kl) =>
        /\ ret # <<AttributeError>>
        /\ Len(ret) = 2
        /\ (IsFinite(lastCall.kl_entry) /\ lastCall.kl_entry.v # 0)
              => ret[2] # lastCall.kl_entry

-----------------------------------------------------------------------------
(* Parameters and layers *)

\* Module constants
P_THRESHOLD_PCT == 95
LOGA_THRESHOLD == 3
INITIAL_LOG_SIGMA2 == -10
\* thresholds=(-8., 8.) of calculate_log_alpha
THRESHOLD_LO == -8
THRESHOLD_HI == 8

\* Logarithms are fixed point in 1/Micro units; weights and biases are
\* integers in units of 1e-4, so eps = 1e-8 is one unit of W * W.
Micro == 1000000
EpsUnits == 1

\* A parameter: absent (the attribute is None), declared but not allocated
\* (data is None), or allocated with a shape and data[o][i]
NoneParam   == [st |-> "none", shape |-> <<>>, data |-> <<>>]
UninitParam == [st |-> "uninit", shape |-> <<>>, data |-> <<>>]
Param(shape, data) == [st |-> "init", shape |-> shape, data |-> data]

\* Parameter.initialize(shape) with a constant initializer
Filled(shape, v) ==
    Param(shape, [o \in 1..shape[1] |-> [i \in 1..shape[2] |-> v]])

\* Weight values, in units of 1e-4: zero, the two values either side of the
\* pruning boundary of the default initialization, and an ordinary weight
WeightVals == {0, 15, 16, -1000}
BiasVals == {5000}
\* initial_log_sigma2 constants a layer may be built with
LogSigma2Vals == {INITIAL_LOG_SIGMA2, 0}
\* devices: -1 is the host, 0 an accelerator
Devices == {-1, 0}

\* ksize and stride of the convolutions (on one ksize x ksize patch)
KSizes == {1}
Strides == {1}

\* (out, in) sizes with at most MaxElems weights
Sizes == {s \in (1..MaxElems) \X (1..MaxElems) : s[1] * s[2] <= MaxElems}

WeightData(o, i) == [1..o -> [1..i -> WeightVals]]

NoLink ==
    [type |-> "None", out |-> 0, ksize |-> 0, stride |-> 0, pad |-> 0,
     W |-> NoneParam, b |-> NoneParam, log_sigma2 |-> NoneParam,
     p_threshold |-> 0, loga_threshold |-> 0,
     is_variational_dropout |-> FALSE,
     is_variational_dropout_linear |-> FALSE, device |-> -1]

\* W_shape of a layer of this type for a given input size
WShape(type, out, in, ksize) ==
    IF type \in {"Linear", "VariationalDropoutLinear"} THEN <<out, in>>
    ELSE <<out, in, ksize, ksize>>

\* chainer.links.Linear / Convolution2D as the code builds and reads them:
\* in = 0 stands for in_size / in_channels = None (W is allocated by the
\* first call), wdata is what the weight initializer draws
PlainLink(type, in, out, ksize, stride, nobias, wdata, bval) ==
    [NoLink EXCEPT
        !.type = type, !.out = out,
        !.ksize = IF type = "Convolution2D" THEN ksize ELSE 0,
        !.stride = IF type = "Convolution2D" THEN stride ELSE 0,
        !.W = IF in = 0 THEN UninitParam
              ELSE Param(WShape(type, out, in, ksize), wdata),
        !.b = IF nobias THEN NoneParam ELSE Filled(<<out, 1>>, bval)]

\* VariationalDropoutLinear.__init__ / VariationalDropoutConvolution2D.__init__
\* The base class allocates W when the input size is known; log_sigma2 is
\* declared, and allocated here only when the input size is known.
VDLink(type, in, out, ksize, stride, nobias, wdata, ls2, loga) ==
    [PlainLink(IF type = "VariationalDropoutLinear" THEN "Linear"
               ELSE "Convolution2D", in, out, ksize, stride, nobias, wdata, 0)
     EXCEPT !.type = type,
            !.log_sigma2 =
                IF in # 0
                THEN Filled(WShape(type, out, in, ksize), ls2 * Micro)
                ELSE UninitParam,
            !.p_threshold = P_THRESHOLD_PCT,
            !.loga_threshold = loga,
            !.is_variational_dropout = TRUE,
            !.is_variational_dropout_linear =
                (type = "VariationalDropoutLinear")]

\* _initialize_params(in, log_sigma2=False) as __call__ uses it: W only
InitializeW(l, in, wdata) ==
    [l EXCEPT !.W = Param(WShape(l.type, l.out, in, l.ksize), wdata)]

-----------------------------------------------------------------------------
(* Forward passes *)

\* ln(n) in 1/Micro units, for n = w * w + EpsUnits over WeightVals
LnMicro(n) ==
    CASE n = 1       -> 0
      [] n = 226     -> 5420535
      [] n = 257     -> 5549076
      [] n = 1000001 -> 13815512

\* ln(1e-8), the unit of W * W, in 1/Micro units
LnUnit == -18420681

Clip(v, lo, hi) == IF v < lo THEN lo ELSE IF v > hi THEN hi ELSE v

\* VDF.calculate_log_alpha for one weight w with log variance s:
\* clip(log_sigma2 - log(W^2 + eps), lo, hi)
LogAlpha(w, s) ==
    Clip(s - (LnMicro(w * w + EpsUnits) + LnUnit),
         THRESHOLD_LO * Micro, THRESHOLD_HI * Micro)

\* clip_mask = (log_alpha.data > self.loga_threshold), per weight
ClipMask(l) ==
    [o \in 1..l.W.shape[1] |-> [i \in 1..l.W.shape[2] |->
        LogAlpha(l.W.data[o][i], l.log_sigma2.data[o][i])
            > l.loga_threshold * Micro]]

RECURSIVE Dot(_, _, _)
Dot(row, x, n) ==
    IF n = 0 THEN 0 ELSE row[n] * x[n] + Dot(row, x, n - 1)

BiasAt(l, o) == IF l.b.st = "init" THEN l.b.data[o][1] ELSE 0

\* x @ W.T + b of a layer whose weights are all kept; for a convolution the
\* input is one kh x kw patch per channel
AffineOut(l, wdata, x) ==
    [o \in 1..l.out |-> Dot(wdata[o], x, Len(x)) + BiasAt(l, o)]

\* W with the masked weights set to zero: (1. - clip_mask) * W
Masked(l) ==
    [o \in 1..l.W.shape[1] |-> [i \in 1..l.W.shape[2] |->
        IF ClipMask(l)[o][i] THEN 0 ELSE l.W.data[o][i]]]

\* The noise term si * normal_noise of a training pass, in output units
\* (0 in an inference pass)
NoiseVals == {-1, 1}

NoCall == [target |-> "none", x |-> <<>>, train |-> FALSE,
           err |-> "", out |-> <<>>]

\* The forward pass of a VD layer on one input row x: VDF.vd_linear, and
\* VariationalDropoutConvolution2D.dropout_convolution_2d
VDForward(l, x, train, noise) ==
    IF l.log_sigma2.st # "init"
    THEN [NoCall EXCEPT !.err = "log_sigma2 is None"]
    ELSE IF Len(x) # l.W.shape[2]
    THEN [NoCall EXCEPT !.err = "shape mismatch"]
    ELSE IF train /\ l.type = "VariationalDropoutConvolution2D"
                  /\ l.b.st = "none"
    THEN [NoCall EXCEPT !.err = "bias of None"]
    ELSE IF train
    THEN [NoCall EXCEPT !.out = [o \in 1..l.out |->
                                   AffineOut(l, Masked(l), x)[o] + noise]]
    ELSE [NoCall EXCEPT !.out = AffineOut(l, Masked(l), x)]

\* The forward pass of the plain layer: x @ W.T + b
PlainForward(l, x) == AffineOut(l, l.W.data, x)

\* Inputs: one row of in features for every in the sizes allow
XVals == {1, -2}
Inputs == UNION {[1..n -> XVals] : n \in 1..MaxElems}

\* VariationalDropoutLinear.__call__ / VariationalDropoutConvolution2D.__call__
\* on layer l: returns <<the layer after the call, the call's record>>
VDCall(l, x, train, noise, wdata) ==
    LET l1 == IF l.W.st # "init" THEN InitializeW(l, Len(x), wdata) ELSE l
        r  == VDForward(l1, x, train, noise)
    IN  <<l1, [r EXCEPT !.x = x, !.train = train]>>

InitLink ==
    /\ \E t \in {"Linear", "Convolution2D", "VariationalDropoutLinear",
                 "VariationalDropoutConvolution2D"} :
       \E s \in Sizes, lazy \in BOOLEAN, k \in KSizes, st \in Strides :
       \E nb \in BOOLEAN, bv \in BiasVals, dev \in Devices :
       \E wd \in WeightData(s[1], s[2]), ls2 \in LogSigma2Vals :
          LET in == IF lazy THEN 0 ELSE s[2]
              l  == IF t \in {"Linear", "Convolution2D"}
                    THEN PlainLink(t, in, s[1], k, st, nb, wd, bv)
                    ELSE VDLink(t, in, s[1], k, st, nb, wd, ls2,
                                LOGA_THRESHOLD)
          IN  link = [l EXCEPT !.device = dev]
    /\ new_link = NoLink
    /\ fwd = NoCall

IdleLink ==
    /\ link = NoLink
    /\ new_link = NoLink
    /\ fwd = NoCall

\* get_vd_link(link, p_threshold, loga_threshold, initial_log_sigma2); wd0 is
\* what the new layer's weight initializer draws before W is copied over it
GetVdLinkNoCopy(l, loga, ls2, wd0) ==
    IF l.type \notin {"Linear", "Convolution2D"}
    THEN [NoLink EXCEPT !.type = "UnboundLocalError"]
    ELSE IF l.W.st # "init"
    THEN [NoLink EXCEPT !.type = "AttributeError"]
    ELSE LET vdtype == IF l.type = "Linear" THEN "VariationalDropoutLinear"
                       ELSE "VariationalDropoutConvolution2D"
             n == VDLink(vdtype, l.W.shape[2], l.W.shape[1], l.ksize,
                         l.stride, FALSE, wd0, ls2, loga)
         IN  [n EXCEPT !.device = l.device]
GetVdLinkResult(l, loga, ls2, wd0) ==
    IF l.type \notin {"Linear", "Convolution2D"}
    THEN [NoLink EXCEPT !.type = "UnboundLocalError"]
    ELSE IF l.W.st # "init"
    THEN [NoLink EXCEPT !.type = "AttributeError"]
    ELSE LET vdtype == IF l.type = "Linear" THEN "VariationalDropoutLinear"
                       ELSE "VariationalDropoutConvolution2D"
             n == VDLink(vdtype, l.W.shape[2], l.W.shape[1], l.ksize,
                         l.stride, FALSE, wd0, ls2, loga)
         IN  [n EXCEPT !.W.data = l.W.data,
                       !.b.data = IF l.b.st = "init" THEN l.b.data ELSE @,
                       !.device = l.device]

GetVdLink ==
    /\ new_link = NoLink
    /\ \E loga \in {LOGA_THRESHOLD}, ls2 \in LogSigma2Vals :
       \E wd0 \in IF link.W.st = "init"
                  THEN WeightData(link.W.shape[1], link.W.shape[2])
                  ELSE {<<>>} :
          new_link' = GetVdLinkResult(link, loga, ls2, wd0)
    /\ link' = [link EXCEPT !.device = -1]
    /\ UNCHANGED <<fwd, lossVars, rnnVars, netVars>>

\* link(x)
Call ==
    /\ link.is_variational_dropout
    /\ \E x \in Inputs, train \in BOOLEAN :
       \E noise \in IF train THEN NoiseVals ELSE {0} :
       \E wd \in IF link.W.st = "init" THEN {link.W.data}
                  ELSE WeightData(link.out, Len(x)) :
          LET r == VDCall(link, x, train, noise, wd)
          IN  /\ link.out * Len(x) <= MaxElems
              /\ link' = r[1]
              /\ fwd' = [r[2] EXCEPT !.target = "link"]
    /\ UNCHANGED <<new_link, lossVars, rnnVars, netVars>>

\* new_link(x)
CallNew ==
    /\ new_link.is_variational_dropout
    /\ \E x \in Inputs, train \in BOOLEAN :
       \E noise \in IF train THEN NoiseVals ELSE {0} :
          LET r == VDCall(new_link, x, train, noise, new_link.W.data)
          IN  /\ new_link' = r[1]
              /\ fwd' = [r[2] EXCEPT !.target = "new_link"]
    /\ UNCHANGED <<link, lossVars, rnnVars, netVars>>

NextLink == GetVdLink \/ Call \/ CallNew


-----------------------------------------------------------------------------
(* Claims on one layer and its conversion *)

\* new_link is a VD layer that get_vd_link built with the default
\* initialization (log_sigma2 = -10, loga_threshold = 3)
ConvertedByDefault ==
    /\ new_link.is_variational_dropout
    /\ new_link.loga_threshold = LOGA_THRESHOLD
    /\ \A o \in 1..new_link.W.shape[1], i \in 1..new_link.W.shape[2] :
          new_link.log_sigma2.data[o][i] = INITIAL_LOG_SIGMA2 * Micro

WeightIndices(l) == (1..l.W.shape[1]) \X (1..l.W.shape[2])

InputsFor(l) == {x \in Inputs : Len(x) = l.W.shape[2]}

\* C4 (as stated): after get_vd_link under the default initialization W and b
\* equal the original's, no weight has its clip mask set, whatever the weight
\* values, and the inference-mode output equals the original layer's output.
C4_NoWeightMaskedAfterConversion ==
    ConvertedByDefault =>
        /\ new_link.W = link.W
        /\ (link.b.st = "init" => new_link.b = link.b)
        /\ \A p \in WeightIndices(new_link) : ~ClipMask(new_link)[p[1]][p[2]]
        /\ \A x \in InputsFor(new_link) :
              VDForward(new_link, x, FALSE, 0).out = PlainForward(link, x)

\* C4 (amended): after get_vd_link under the default initialization W equals
\* the original's and b does when the original has one; a weight has its clip
\* mask set exactly when W^2 + 1e-8 < e^-13, that is |W| <= 0.0015 on the
\* 1e-4 grid, zero included; the inference-mode output equals the original
\* layer's output when every weight is zero or larger than that.
C4_SmallWeightsMaskedAfterConversion ==
    ConvertedByDefault =>
        /\ new_link.W = link.W
        /\ (link.b.st = "init" => new_link.b = link.b)
        /\ \A p \in WeightIndices(new_link) :
              ClipMask(new_link)[p[1]][p[2]]
                  <=> link.W.data[p[1]][p[2]] * link.W.data[p[1]][p[2]] <= 225
        /\ (\A p \in WeightIndices(new_link) :
                \/ link.W.data[p[1]][p[2]] = 0
                \/ link.W.data[p[1]][p[2]] * link.W.data[p[1]][p[2]] > 225)
           => \A x \in InputsFor(new_link) :
                 VDForward(new_link, x, FALSE, 0).out = PlainForward(link, x)

\* C4 witness: a converted layer with a masked small weight beside a kept
\* one, just called in inference mode.
C4_Witness ==
    /\ ConvertedByDefault
    /\ \E p, q \in WeightIndices(new_link) :
          /\ new_link.W.data[p[1]][p[2]] = 15
          /\ ClipMask(new_link)[p[1]][p[2]]
          /\ ~ClipMask(new_link)[q[1]][q[2]]
    /\ fwd.target = "new_link"
    /\ ~fwd.train
    /\ fwd.err = ""
    /\ fwd.out # PlainForward(link, fwd.x)

\* C5: the VD variant get_vd_link builds has the shape configuration of the
\* layer it replaces, bias presence included.
C5_BiasPresencePreserved ==
    new_link.is_variational_dropout =>
        /\ new_link.W.shape = link.W.shape
        /\ new_link.out = link.out
        /\ new_link.ksize = link.ksize
        /\ new_link.stride = link.stride
        /\ new_link.pad = link.pad
        /\ (new_link.b.st = "init") = (link.b.st = "init")

\* C8: in every state of a VD layer, whenever W is materialized log_sigma2
\* is materialized too, with the shape of W.
C8_LogSigma2ShapedLikeW ==
    \A l \in {link, new_link} :
        (l.is_variational_dropout /\ l.W.st = "init") =>
            /\ l.log_sigma2.st = "init"
            /\ l.log_sigma2.shape = l.W.shape

-----------------------------------------------------------------------------
(* VariationalDropoutTanhRNN and VariationalDropoutLSTM *)

\* Arrays are terms: an input, None, zeros, or a function applied to terms,
\* so two values are equal exactly when they were computed the same way
Term(op, args) == [op |-> op, args |-> args]
None  == Term("None", <<>>)
Zeros == Term("zeros", <<>>)

\* inputs x, and the states a caller passes to set_state or a stateless call
XTerms == {Term("x1", <<>>), Term("x2", <<>>)}
HTerms == {Term("h0", <<>>)}
CTerms == {Term("c0", <<>>)}

\* configuration.config.user_memory_efficiency
MemoryEfficiencies == {0, 3}

NoOp == [op |-> "none", x |-> None, h |-> None, h_prev |-> None,
         lstm_in |-> None, out |-> None]

InitRNN ==
    /\ tanh_h = None
    /\ lstm_h = None
    /\ lstm_c = None
    /\ rnnLast = NoOp
    /\ rnnSteps = 0

IdleRNN == InitRNN

\* VariationalDropoutTanhRNN.reset_state
TanhResetState ==
    /\ rnnSteps < MaxSteps
    /\ tanh_h' = None
    /\ rnnLast' = [NoOp EXCEPT !.op = "tanh_reset_state", !.h_prev = tanh_h]
    /\ rnnSteps' = rnnSteps + 1
    /\ UNCHANGED <<lstm_h, lstm_c, lossVars, linkVars, netVars>>

\* VariationalDropoutTanhRNN.set_state(h)
TanhSetState ==
    /\ rnnSteps < MaxSteps
    /\ \E h \in HTerms :
          /\ tanh_h' = h
          /\ rnnLast' = [NoOp EXCEPT !.op = "tanh_set_state", !.h = h,
                                     !.h_prev = tanh_h]
    /\ rnnSteps' = rnnSteps + 1
    /\ UNCHANGED <<lstm_h, lstm_c, lossVars, linkVars, netVars>>

\* new_h = F.tanh(self.W(F.concat([x, h], axis=1)))
TanhStep(x, h) == Term("tanh", <<Term("W", <<Term("concat", <<x, h>>)>>)>>)

\* The state a call of VariationalDropoutTanhRNN leaves in self.h
TanhStateAfter(stateful, new_h, h_entry) ==
    IF stateful THEN new_h ELSE None

\* VariationalDropoutTanhRNN.__call__(x, h): h = None is a stateful call
tanh_call(x, h) ==
    LET stateful == (h = None)
        h_in     == IF stateful
                    THEN (IF tanh_h = None THEN Zeros ELSE tanh_h)
                    ELSE h
        new_h    == TanhStep(x, h_in)
    IN  /\ rnnSteps < MaxSteps
        /\ tanh_h' = TanhStateAfter(stateful, new_h, tanh_h)
        /\ rnnLast' = [NoOp EXCEPT
                          !.op = IF stateful THEN "tanh_stateful"
                                 ELSE "tanh_stateless",
                          !.x = x, !.h = h, !.h_prev = tanh_h, !.out = new_h]
        /\ rnnSteps' = rnnSteps + 1
        /\ UNCHANGED <<lstm_h, lstm_c, lossVars, linkVars, netVars>>

TanhCallStateful == \E x \in XTerms : tanh_call(x, None)

TanhCallStateless == \E x \in XTerms, h \in HTerms : tanh_call(x, h)

\* VariationalDropoutLSTM.reset_state
LstmResetState ==
    /\ rnnSteps < MaxSteps
    /\ lstm_h' = None
    /\ lstm_c' = None
    /\ rnnLast' = [NoOp EXCEPT !.op = "lstm_reset_state", !.h_prev = lstm_h]
    /\ rnnSteps' = rnnSteps + 1
    /\ UNCHANGED <<tanh_h, lossVars, linkVars, netVars>>

\* VariationalDropoutLSTM.set_state(c, h)
LstmSetState ==
    /\ rnnSteps < MaxSteps
    /\ \E c \in CTerms, h \in HTerms :
          /\ lstm_h' = h
          /\ lstm_c' = c
          /\ rnnLast' = [NoOp EXCEPT !.op = "lstm_set_state", !.h = h,
                                     !.h_prev = lstm_h]
    /\ rnnSteps' = rnnSteps + 1
    /\ UNCHANGED <<tanh_h, lossVars, linkVars, netVars>>

\* The gate pre-activation of VariationalDropoutLSTM.__call__: F.forget only
\* recomputes on the backward pass, so the level me does not change the value
LstmIn(x, h_entry, me) ==
    IF h_entry # None
    THEN Term("add", <<Term("upward", <<x>>), Term("lateral", <<x>>)>>)
    ELSE Term("upward", <<x>>)

\* VariationalDropoutLSTM.__call__(x) under user_memory_efficiency = me
lstm_call(x, me) ==
    LET lstm_in == LstmIn(x, lstm_h, me)
        c_in    == IF lstm_c = None THEN Zeros ELSE lstm_c
        new_c   == Term("lstm_c", <<c_in, lstm_in>>)
        new_h   == Term("lstm_h", <<c_in, lstm_in>>)
    IN  /\ rnnSteps < MaxSteps
        /\ lstm_c' = new_c
        /\ lstm_h' = new_h
        /\ rnnLast' = [NoOp EXCEPT !.op = "lstm_call", !.x = x,
                                   !.h_prev = lstm_h, !.lstm_in = lstm_in,
                                   !.out = new_h]
        /\ rnnSteps' = rnnSteps + 1
        /\ UNCHANGED <<tanh_h, lossVars, linkVars, netVars>>

LstmCall == \E x \in XTerms, me \in MemoryEfficiencies : lstm_call(x, me)

NextRNN ==
    \/ TanhResetState
    \/ TanhSetState
    \/ TanhCallStateful
    \/ TanhCallStateless
    \/ LstmResetState
    \/ LstmSetState
    \/ LstmCall

-----------------------------------------------------------------------------
(* Claims on the recurrent layers *)

\* C9: a stateless call of VariationalDropoutTanhRNN (h passed by the caller)
\* leaves self.h as it was at the call's entry.
C9_StatelessCallKeepsState ==
    rnnLast.op = "tanh_stateless" => tanh_h = rnnLast.h_prev

\* C10: the gate pre-activation of VariationalDropoutLSTM.__call__ is
\* upward(x) + lateral(h_prev) when a previous hidden state exists at entry
\* and upward(x) alone when none does.
C10_LateralTakesPreviousHidden ==
    rnnLast.op = "lstm_call" =>
        rnnLast.lstm_in =
            IF rnnLast.h_prev # None
            THEN Term("add", <<Term("upward", <<rnnLast.x>>),
                               Term("lateral", <<rnnLast.h_prev>>)>>)
            ELSE Term("upward", <<rnnLast.x>>)

-----------------------------------------------------------------------------
(* A chain as a tree of named links *)

\* Names of links; their order is the order of the names as strings
Names == {1, 2}

\* A node is a link object: gen tells the objects apart that were installed
\* under one path, one after the other
Node(gen, l) == [gen |-> gen, link |-> l]

ChainLink == [NoLink EXCEPT !.type = "Chain"]
EmbedLink == [NoLink EXCEPT !.type = "EmbedID",
                            !.W = Param(<<1, 1>>, <<<<16>>>>)]

IsChain(n) == n.link.type = "Chain"

\* The leaves a network is built from: plain layers with and without bias
\* and with W not yet allocated, an embedding, and a VD layer with a
\* pruned weight (a VD layer with a kept weight comes from converting the
\* plain convolution)
LeafLinks ==
    { PlainLink("Linear", 1, 1, 0, 0, FALSE, <<<<16>>>>, 5000),
      PlainLink("Linear", 0, 1, 0, 0, TRUE, <<>>, 0),
      PlainLink("Convolution2D", 1, 1, 1, 1, TRUE, <<<<-1000>>>>, 0),
      EmbedLink,
      VDLink("VariationalDropoutLinear", 1, 1, 0, 0, FALSE, <<<<15>>>>,
             INITIAL_LOG_SIGMA2, LOGA_THRESHOLD) }

EmptyNet == [q \in {} |-> Node(0, NoLink)]

IsPrefix(p, q) == Len(p) <= Len(q) /\ SubSeq(q, 1, Len(p)) = p

\* The order of '/'-joined names as strings: '/' sorts before every
\* character of a name, so a path comes before its extensions
RECURSIVE PathLeq(_, _)
PathLeq(a, b) ==
    IF a = <<>> THEN TRUE
    ELSE IF b = <<>> THEN FALSE
    ELSE IF a[1] # b[1] THEN a[1] < b[1]
    ELSE PathLeq(Tail(a), Tail(b))

RECURSIVE SortedPaths(_)
SortedPaths(S) ==
    IF S = {} THEN <<>>
    ELSE LET m == CHOOSE x \in S : \A y \in S : PathLeq(x, y)
         IN  <<m>> \o SortedPaths(S \ {m})

\* sorted(link.namedlinks(skipself=True), key=lambda x: x[0]) for the chain
\* at path p of tree t: <<relative name, link object>> of every descendant
SortedNamedLinks(t, p) ==
    LET rels == {SubSeq(q, Len(p) + 1, Len(q)) :
                    q \in {r \in DOMAIN t : IsPrefix(p, r) /\ r # p}}
        ord  == SortedPaths(rels)
    IN  [k \in 1..Len(ord) |-> <<ord[k], t[p \o ord[k]]>>]

\* No statistics: the last operation was not calculate_stats
NoStats == [kind |-> "none", size |-> 0, sum_p |-> 0, n_zero |-> 0,
            n_non_zero |-> 0, ratio |-> <<>>]

InitNet ==
    /\ net = EmptyNet
    /\ netDevice = -1
    /\ netOp = "init"
    /\ netErr = ""
    /\ netLog = <<>>
    /\ warned = FALSE
    /\ pre = EmptyNet
    /\ preDevice = -1
    /\ stats = NoStats

IdleNet == InitNet

\* add_link(name, link) on the root or on a chain of the tree, as the
\* constructors of nets.py do before the network is used
AddLink ==
    /\ netOp \in {"init", "add_link"}
    /\ Cardinality(DOMAIN net) < MaxNodes
    /\ \E parent \in {<<>>} \cup {q \in DOMAIN net : IsChain(net[q])} :
       \E name \in Names, l \in LeafLinks \cup {ChainLink} :
          /\ parent \o <<name>> \notin DOMAIN net
          /\ net' = (parent \o <<name>> :> Node(0, l)) @@ net
    /\ netOp' = "add_link"
    /\ pre' = net
    /\ preDevice' = netDevice
    /\ stats' = NoStats
    /\ UNCHANGED <<netDevice, netErr, netLog, warned>>
    /\ UNCHANGED <<lossVars, linkVars, rnnVars>>

\* Link.to_cpu() / to_gpu(d) moves the chain and every link below it
MovedTo(t, d) == [q \in DOMAIN t |-> [t[q] EXCEPT !.link.device = d]]

\* to_gpu() / to_cpu() of the whole chain
ToDevice ==
    /\ netOp # "init"
    /\ \E d \in Devices :
          /\ d # netDevice
          /\ netDevice' = d
          /\ net' = MovedTo(net, d)
          /\ netOp' = IF d = -1 THEN "to_cpu" ELSE "to_gpu"
    /\ netErr' = ""
    /\ netLog' = <<>>
    /\ warned' = FALSE
    /\ pre' = net
    /\ preDevice' = netDevice
    /\ stats' = NoStats
    /\ UNCHANGED <<lossVars, linkVars, rnnVars>>

-----------------------------------------------------------------------------
(* to_variational_dropout *)

\* What a traversal carries: the tree, the printed lines, the exception
Walk(t, log, err) == [net |-> t, log |-> log, err |-> err]

IsConversionError(l) == l.type \in {"UnboundLocalError", "AttributeError"}

\* The leaf branch of to_variational_dropout_link for a direct child rel of
\* the chain at path parent: replace a plain Linear / Convolution2D by
\* get_vd_link(link.copy()) under the same name, retain anything else
ReplaceOrRetain(st, parent, rel, node, path_name) ==
    IF /\ ~node.link.is_variational_dropout
       /\ node.link.type \in {"Linear", "Convolution2D"}
    THEN LET nl == GetVdLinkResult(node.link, LOGA_THRESHOLD,
                                   INITIAL_LOG_SIGMA2, node.link.W.data)
         IN  IF IsConversionError(nl)
             THEN Walk(st.net, st.log, nl.type)
             ELSE Walk([st.net EXCEPT ![parent \o rel] =
                                          Node(node.gen + 1, nl)],
                       Append(st.log, [kind |-> "Replace",
                                       path |-> path_name \o rel]),
                       "")
    ELSE Walk(st.net, Append(st.log, [kind |-> "Retain",
                                      path |-> path_name \o rel]), "")

\* to_variational_dropout_link without the descent into chains
ToVdLinkFlat(st, parent, rel, node, path_name) ==
    IF st.err # "" \/ IsChain(node) \/ Len(rel) # 1 THEN st
    ELSE ReplaceOrRetain(st, parent, rel, node, path_name)

\* to_variational_dropout_link(parent, name, link, path_name): rel is name
\* without its leading '/', as a sequence of names; path_name is a sequence
\* of names too. ToVdList is its loop over the sorted links of a chain.
RECURSIVE ToVdLink(_, _, _, _, _), ToVdList(_, _, _, _, _)
ToVdLink(st, parent, rel, node, path_name) ==
    IF st.err # "" THEN st
    ELSE IF IsChain(node)
    THEN ToVdList(st, parent \o rel, SortedNamedLinks(st.net, parent \o rel),
                  1, rel)
    ELSE IF Len(rel) = 1
    THEN ReplaceOrRetain(st, parent, rel, node, path_name)
    ELSE st

ToVdList(st, chain, list, k, path_name) ==
    IF k > Len(list) THEN st
    ELSE ToVdList(ToVdLink(st, chain, list[k][1], list[k][2], path_name),
                  chain, list, k + 1, path_name)

\* VariationalDropoutChain.to_variational_dropout: the loop over the sorted
\* links of self, each handed to to_variational_dropout_link
RECURSIVE ToVdTop(_, _, _)
ToVdTop(st, list, k) ==
    IF k > Len(list) THEN st
    ELSE ToVdTop(ToVdLink(st, <<>>, list[k][1], list[k][2], <<>>),
                 list, k + 1)

ToVariationalDropout ==
    /\ netOp # "init"
    /\ LET r == ToVdTop(Walk(net, <<>>, ""), SortedNamedLinks(net, <<>>), 1)
       IN  /\ net' = r.net
           /\ netLog' = r.log
           /\ netErr' = r.err
    /\ netOp' = "to_variational_dropout"
    /\ warned' = FALSE
    /\ pre' = net
    /\ preDevice' = netDevice
    /\ stats' = NoStats
    /\ UNCHANGED netDevice
    /\ UNCHANGED <<lossVars, linkVars, rnnVars>>

-----------------------------------------------------------------------------
(* to_cpu_sparse *)

RECURSIVE Product(_)
Product(shape) == IF shape = <<>> THEN 1 ELSE shape[1] * Product(Tail(shape))

\* the parameters of a link that exist: W, b, log_sigma2
ParamsOf(l) == {q \in {l.W, l.b, l.log_sigma2} : q.st # "none"}

\* sum(p.size for p in link.params()) of one link
ParamCount(l) ==
    (IF l.W.st = "init" THEN Product(l.W.shape) ELSE 0)
    + (IF l.b.st = "init" THEN Product(l.b.shape) ELSE 0)
    + (IF l.log_sigma2.st = "init" THEN Product(l.log_sigma2.shape) ELSE 0)

RECURSIVE SumParamCount(_, _)
SumParamCount(t, S) ==
    IF S = {} THEN 0
    ELSE LET q == CHOOSE x \in S : TRUE
         IN  ParamCount(t[q].link) + SumParamCount(t, S \ {q})

\* the links whose parameters link.params() visits: the link at p and all
\* below it
Below(t, p) == {q \in DOMAIN t : IsPrefix(p, q)}

\* number of weights the clip mask keeps
KeptCount(l) ==
    Cardinality({ix \in (1..l.W.shape[1]) \X (1..l.W.shape[2]) :
                    ~ClipMask(l)[ix[1]][ix[2]]})

\* VariationalDropoutLinear.get_sparse_cpu_model: the inference-only layer
\* holding the weights the clip mask keeps, and the bias
SparseModel(l) ==
    [NoLink EXCEPT !.type = "SparseLinearForwardCPU", !.out = l.out,
                   !.W = Param(l.W.shape, Masked(l)), !.b = l.b,
                   !.loga_threshold = l.loga_threshold]

SparseParamCount(l, sparse) ==
    KeptCount(l) + (IF sparse.b.st = "init" THEN Product(sparse.b.shape)
                    ELSE 0)

\* What the loop of to_cpu_sparse carries
Sweep(t, log, err, old, new) ==
    [net |-> t, log |-> log, err |-> err, old |-> old, new |-> new]

\* One round of the loop of to_cpu_sparse: name (rel, without the leading
\* '/') and link come from the sorted links of self
SparseStep(st, rel, node) ==
    IF st.err # "" THEN st
    ELSE IF \E q \in Below(st.net, rel) :
               \E pr \in ParamsOf(st.net[q].link) : pr.st = "uninit"
    THEN [st EXCEPT !.err = "AttributeError"]       \* p.size of data None
    ELSE LET n_old == SumParamCount(st.net, Below(st.net, rel))
         IN  IF node.link.is_variational_dropout_linear
             THEN IF Len(rel) # 1
                  THEN [st EXCEPT !.err = "AttributeError"]  \* delattr
                  ELSE LET sp    == SparseModel(node.link)
                           n_new == SparseParamCount(node.link, sp)
                       IN  Sweep([st.net EXCEPT ![rel] =
                                                   Node(node.gen + 1, sp)],
                                 Append(st.log, [kind |-> "Sparsified",
                                                 path |-> rel]),
                                 "", st.old + n_old, st.new + n_new)
             ELSE IF ~IsChain(node)
             THEN Sweep(st.net,
                        Append(st.log, [kind |-> "Retain", path |-> rel]),
                        "", st.old + n_old, st.new + n_old)
             ELSE st

RECURSIVE SparseLoop(_, _, _)
SparseLoop(st, list, k) ==
    IF k > Len(list) THEN st
    ELSE SparseLoop(SparseStep(st, list[k][1], list[k][2]), list, k + 1)

\* Whether to_cpu_sparse warns: self.xp is not numpy, read after to_cpu()
Warns(device) == device # -1

\* VariationalDropoutChain.to_cpu_sparse
ToCpuSparse ==
    /\ netOp # "init"
    /\ LET moved == MovedTo(net, -1)                       \* self.to_cpu()
           r == SparseLoop(Sweep(moved, <<>>, "", 0, 0),
                           SortedNamedLinks(moved, <<>>), 1)
       IN  /\ net' = r.net
           /\ netLog' = r.log
           /\ netErr' = IF r.err = "" /\ r.old = 0
                        THEN "ZeroDivisionError" ELSE r.err
           /\ warned' = Warns(-1)
    /\ netDevice' = -1
    /\ netOp' = "to_cpu_sparse"
    /\ pre' = net
    /\ preDevice' = netDevice
    /\ stats' = NoStats
    /\ UNCHANGED <<lossVars, linkVars, rnnVars>>

-----------------------------------------------------------------------------
(* calculate_stats *)

\* get_vd_links(link) for the link at path q of tree t (q = <<>> is the
\* chain itself): the paths of the links it yields, one entry per yield.
\* For a chain it runs over link.links(skipself=True), which is every link
\* below the chain, and yields what get_vd_links yields for each of them.
RECURSIVE GetVdLinks(_, _), GetVdLinksOver(_, _, _)
GetVdLinks(t, q) ==
    IF q = <<>> \/ IsChain(t[q])
    THEN GetVdLinksOver(t, SortedPaths(Below(t, q) \ {q}), 1)
    ELSE IF t[q].link.is_variational_dropout THEN <<q>> ELSE <<>>

GetVdLinksOver(t, list, k) ==
    IF k > Len(list) THEN <<>>
    ELSE GetVdLinks(t, list[k]) \o GetVdLinksOver(t, list, k + 1)

\* alpha / (1 + alpha) for alpha = exp(log_alpha), in 1/1000, for the
\* values of log_alpha that a layer with log_sigma2 = INITIAL_LOG_SIGMA2
\* and a weight of WeightVals has
PMille(la) ==
    CASE la = THRESHOLD_HI * Micro -> 1000
      [] la = 3000146              -> 953
      [] la = 2871605              -> 946
      [] la = -5394831             -> 5

WeightsOf(l) == (1..l.W.shape[1]) \X (1..l.W.shape[2])

\* calculate_p(link).flatten(), as the bag of its values: value -> count
PAt(l, ix) == PMille(LogAlpha(l.W.data[ix[1]][ix[2]],
                              l.log_sigma2.data[ix[1]][ix[2]]))

RECURSIVE SumP(_, _)
SumP(l, S) ==
    IF S = {} THEN 0
    ELSE LET ix == CHOOSE x \in S : TRUE
         IN  PAt(l, ix) + SumP(l, S \ {ix})

\* (all_p > threshold).sum() of one link
CountZero(l, threshold) ==
    Cardinality({ix \in WeightsOf(l) : PAt(l, ix) > threshold * 10})

\* The totals of all_p, the concatenation over the yielded links: its
\* size, its sum and the number of its entries above the threshold
RECURSIVE Totals(_, _, _, _)
Totals(t, list, k, threshold) ==
    IF k > Len(list) THEN [size |-> 0, sum_p |-> 0, n_zero |-> 0]
    ELSE LET l    == t[list[k]].link
             rest == Totals(t, list, k + 1, threshold)
         IN  [size   |-> Cardinality(WeightsOf(l)) + rest.size,
              sum_p  |-> SumP(l, WeightsOf(l)) + rest.sum_p,
              n_zero |-> CountZero(l, threshold) + rest.n_zero]

\* calculate_stats(chain, threshold): mean_p is sum_p / size / 1000,
\* sparsity is n_zero / size, W/Wnz is ratio (<<"inf">> or <<num, den>>);
\* without a VD link all three are 0.0
calculate_stats(t, threshold) ==
    LET list == GetVdLinks(t, <<>>)
        tot  == Totals(t, list, 1, threshold)
        nnz  == tot.size - tot.n_zero
    IN  IF list = <<>>
        THEN [NoStats EXCEPT !.kind = "defaultdict", !.ratio = <<0, 1>>]
        ELSE [kind |-> "stats", size |-> tot.size, sum_p |-> tot.sum_p,
              n_zero |-> tot.n_zero, n_non_zero |-> nnz,
              ratio |-> IF nnz = 0 THEN <<"inf">> ELSE <<tot.size, nnz>>]

CalculateStats ==
    /\ netOp # "init"
    /\ stats' = calculate_stats(net, P_THRESHOLD_PCT)
    /\ warned' = \E k \in DOMAIN GetVdLinks(net, <<>>) :
                    net[GetVdLinks(net, <<>>)[k]].link.p_threshold
                        # P_THRESHOLD_PCT
    /\ netOp' = "calculate_stats"
    /\ netErr' = ""
    /\ netLog' = <<>>
    /\ pre' = net
    /\ preDevice' = netDevice
    /\ UNCHANGED <<net, netDevice>>
    /\ UNCHANGED <<lossVars, linkVars, rnnVars>>

NextNet ==
    \/ AddLink
    \/ ToDevice
    \/ ToVariationalDropout
    \/ ToCpuSparse
    \/ CalculateStats

-----------------------------------------------------------------------------
(* Claims on the conversions of a network *)

IsPlainLeaf(n) ==
    /\ n.link.type \in {"Linear", "Convolution2D"}
    /\ ~n.link.is_variational_dropout

VDTypeOf(type) == IF type = "Linear" THEN "VariationalDropoutLinear"
                  ELSE "VariationalDropoutConvolution2D"

ConvertedTree(before, after) ==
    /\ DOMAIN after = DOMAIN before
    /\ \A q \in DOMAIN before :
          IF IsPlainLeaf(before[q])
          THEN /\ after[q].gen # before[q].gen
               /\ after[q].link.type = VDTypeOf(before[q].link.type)
               /\ after[q].link.is_variational_dropout
          ELSE after[q] = before[q]

\* C3: when to_variational_dropout() has returned, every plain Linear or
\* Convolution2D leaf of the tree, at any depth, has been replaced by its VD
\* variant under the same path, every other link is the same object as
\* before, and the set of paths is the same.
C3_PlainLeavesReplacedOthersKept ==
    (netOp = "to_variational_dropout" /\ netErr = "")
        => ConvertedTree(pre, net)

\* a conversion that returned on a tree with a plain leaf at depth 3 and an
\* embedding beside it
C3_Witness ==
    /\ netOp = "to_variational_dropout"
    /\ netErr = ""
    /\ \E q \in DOMAIN pre : Len(q) = 3 /\ IsPlainLeaf(pre[q])
    /\ \E q \in DOMAIN pre : pre[q].link.type = "EmbedID"

AllAllocated(t) ==
    /\ \A q \in DOMAIN t :
          \A pr \in ParamsOf(t[q].link) : pr.st = "init"
    /\ \E q \in DOMAIN t : ParamsOf(t[q].link) # {}

SparsifiedTree(before, after) ==
    /\ DOMAIN after = DOMAIN before
    /\ \A q \in DOMAIN before :
          IF before[q].link.is_variational_dropout_linear
          THEN /\ after[q].gen # before[q].gen
               /\ after[q].link.type = "SparseLinearForwardCPU"
          ELSE after[q] = [before[q] EXCEPT !.link.device = -1]
    /\ \A q \in DOMAIN after : ~after[q].link.is_variational_dropout_linear

\* C6: to_cpu_sparse() on a network whose parameters are all allocated
\* completes without error, replaces every link flagged
\* is_variational_dropout_linear, at any depth, by a sparse inference link
\* under the same path, and retains every other link, so that no VD-Linear
\* link remains.
C6_EveryVDLinearSparsified ==
    (netOp = "to_cpu_sparse" /\ AllAllocated(pre))
        => (netErr = "" /\ SparsifiedTree(pre, net))

\* C7: to_cpu_sparse() called on a network that is on an accelerator warns
\* and leaves the network on that device.
C7_WarnsAndDoesNotMigrate ==
    (netOp = "to_cpu_sparse" /\ preDevice # -1)
        => (warned /\ netDevice = preDevice)

VDLeaves(t) == {q \in DOMAIN t : ~IsChain(t[q])
                                  /\ t[q].link.is_variational_dropout}

RECURSIVE SumOver(_, _, _)
SumOver(t, S, threshold) ==
    IF S = {} THEN [size |-> 0, n_zero |-> 0]
    ELSE LET q    == CHOOSE x \in S : TRUE
             rest == SumOver(t, S \ {q}, threshold)
         IN  [size   |-> Cardinality(WeightsOf(t[q].link)) + rest.size,
              n_zero |-> CountZero(t[q].link, threshold) + rest.n_zero]

\* C11: calculate_stats on a tree with a VD layer counts each VD layer once
\* at any depth: sparsity is the number of weights of all VD layers with
\* p > threshold over the number of weights of all VD layers, and W/Wnz is
\* total / non_pruned, +inf when non_pruned is 0.
C11_EachVDLayerCountedOnce ==
    (netOp = "calculate_stats" /\ VDLeaves(net) # {}) =>
        LET once == SumOver(net, VDLeaves(net), P_THRESHOLD_PCT)
            nnz  == once.size - once.n_zero
        IN  /\ stats.kind = "stats"
            /\ stats.n_zero * once.size = once.n_zero * stats.size
            /\ IF nnz = 0 THEN stats.ratio = <<"inf">>
               ELSE /\ stats.ratio # <<"inf">>
                    /\ stats.ratio[1] * nnz = once.size * stats.ratio[2]

Leaves(t) == {q \in DOMAIN t : ~IsChain(t[q])}

\* C13: the log of a to_variational_dropout() call that returned has
\* exactly one entry per leaf of the tree, at any depth, naming the leaf by
\* its full path from the root, and every entry names a leaf.
C13_OneLogEntryPerLeaf ==
    (netOp = "to_variational_dropout" /\ netErr = "") =>
        /\ \A q \in Leaves(pre) :
              Cardinality({k \in DOMAIN netLog : netLog[k].path = q}) = 1
        /\ \A k \in DOMAIN netLog : netLog[k].path \in Leaves(pre)

-----------------------------------------------------------------------------
(* Specifications: each runs one component and leaves the others idle *)

LossInit == InitLoss /\ IdleLink /\ IdleRNN /\ IdleNet
SpecLoss == LossInit /\ [][NextLoss]_vars

LinkInit == InitLink /\ IdleLoss /\ IdleRNN /\ IdleNet
SpecLink == LinkInit /\ [][NextLink]_vars

RNNInit == InitRNN /\ IdleLoss /\ IdleLink /\ IdleNet
SpecRNN == RNNInit /\ [][NextRNN]_vars

NetInit == InitNet /\ IdleLoss /\ IdleLink /\ IdleRNN
SpecNet == NetInit /\ [][NextNet]_vars

=============================================================================
